---- MODULE Spec2Model ----
(***************************************************************************)
(* A model of dogen's tools module (src/dogen/tools.py): the Artifact      *)
(* class (construction, URL generation, fetch, verify), cleanup,           *)
(* prepare_external_repositories and load_descriptor, together with the    *)
(* Generator's custom-template handling and run pipeline that use them.    *)
(*                                                                         *)
(* Strings are modelled as sequences of tokens; a hex digest is a          *)
(* sequence of one-character tokens so that case folding is computed.      *)
(* A file system is a function from the paths that exist to their          *)
(* content.                                                                *)
(***************************************************************************)
EXTENDS Integers, Sequences, FiniteSets, TLC

VARIABLES
    target_dir,       \* Artifact.target_dir (class attribute)
    check_integrity,  \* Artifact.check_integrity (class attribute)
    cache,            \* os.environ["DOGEN_ARTIFACT_CACHE"], <<>> when unset or empty
    fs,               \* the files of the artifact directories: path -> content
    art,              \* the Artifact instance (self)
    last,             \* what the most recent Artifact operation did
    tree,             \* the directory tree cleanup works on: path -> "dir" or "file"
    clLast,           \* what the most recent cleanup or repository preparation did
    template,         \* Generator.template
    tfs,              \* the template files that exist on disk
    tplLast,          \* what the most recent _handle_custom_template call did
    schemas,          \* the schema types whose <type>_schema.yaml exists
    descFiles,        \* the descriptor files: path -> what the file holds
    ldLast,           \* what the most recent load_descriptor call did
    run               \* the generation run: its stage and what it has done so far

artVars == <<target_dir, check_integrity, cache, fs, art, last>>

treeVars == <<tree, clLast>>

tplVars == <<template, tfs, tplLast>>

descVars == <<schemas, descFiles, ldLast, run>>

vars == <<artVars, treeVars, tplVars, descVars>>

----------------------------------------------------------------------------
(* Bounds and the finite universes the inputs are drawn from. *)

\* File contents are 1..MaxContent; content 2 is content 1 with one byte changed.
MaxContent == 2

Contents == 1 .. MaxContent

Dirs == {"", "out"}

Names == {"a.jar"}

Sources == {<<"http://host/a.jar">>}

CachePatterns ==
    { <<>>,
      <<"http://cache/", "#filename#">>,
      <<"http://cache/", "#algorithm#", "/", "#hash#", "/", "#filename#">> }

StatusCodes == {200, 404}

----------------------------------------------------------------------------
(* Pure helpers. *)

SUPPORTED_HASH_ALGORITHMS == <<"sha256", "sha1", "md5">>

Algorithms == {SUPPORTED_HASH_ALGORITHMS[i] : i \in DOMAIN SUPPORTED_HASH_ALGORITHMS}

\* os.path.join(target_dir, name) for a relative name: an empty directory
\* contributes no component.
Join(d, n) == IF d = "" THEN <<n>> ELSE <<d, n>>

Paths == {Join(d, n) : d \in Dirs, n \in Names}

\* os.path.exists
Exists(f, p) == p \in DOMAIN f

\* open(p, 'wb') followed by writing every chunk: p holds exactly body.
WriteFile(f, p, body) == [q \in (DOMAIN f) \cup {p} |-> IF q = p THEN body ELSE f[q]]

\* str.lower() on one character of a hex digest.
LowerChar(ch) ==
    CASE ch = "A" -> "a"
      [] ch = "B" -> "b"
      [] ch = "C" -> "c"
      [] ch = "D" -> "d"
      [] ch = "E" -> "e"
      [] ch = "F" -> "f"
      [] OTHER -> ch

UpperChar(ch) ==
    CASE ch = "a" -> "A"
      [] ch = "b" -> "B"
      [] ch = "c" -> "C"
      [] ch = "d" -> "D"
      [] ch = "e" -> "E"
      [] ch = "f" -> "F"
      [] OTHER -> ch

Lower(s) == [i \in DOMAIN s |-> LowerChar(s[i])]

Upper(s) == [i \in DOMAIN s |-> UpperChar(s[i])]

\* hashlib.<algorithm>().hexdigest() of a file content: lower-case hex, one
\* value per (algorithm, content), no collisions within the bounded contents.
AlgHex(alg) ==
    CASE alg = "sha256" -> "a"
      [] alg = "sha1" -> "b"
      [] OTHER -> "c"

ContentHex == <<"e", "f", "d", "9", "8">>

HexDigest(alg, c) == <<AlgHex(alg), ContentHex[c]>>

\* str.replace(old, new) at token granularity: every occurrence is replaced.
RECURSIVE Replace(_, _, _)
Replace(s, old, new) ==
    IF s = <<>> THEN <<>>
    ELSE (IF Head(s) = old THEN new ELSE <<Head(s)>>) \o Replace(Tail(s), old, new)

----------------------------------------------------------------------------
(* The directory tree: cleanup and prepare_external_repositories. *)

\* p is q or an ancestor of q.
IsPrefix(p, q) == Len(p) <= Len(q) /\ SubSeq(q, 1, Len(p)) = p

Parent(p) == SubSeq(p, 1, Len(p) - 1)

\* The output directory handed to cleanup and the directory of repository
\* definitions handed to prepare_external_repositories.
Target == <<"target">>

RepoFilesDir == <<"repos.d">>

\* The paths of the model and the kinds each may have.
DirNodes ==
    { Target, Target \o <<"image">>, Target \o <<"image", "modules", "m1">>, RepoFilesDir }

FileNodes ==
    { Target \o <<"Dockerfile">>,
      Target \o <<"image", "a.jar">>,
      Target \o <<"image", "modules", "m1", "module.yaml">>,
      Target \o <<"image", "repos", "x.repo">>,
      Target \o <<"repo", "x">>,
      RepoFilesDir \o <<"x.repo">>,
      RepoFilesDir \o <<"notes.txt">> }

EitherNodes ==
    { Target \o <<"image", "modules">>, Target \o <<"image", "repos">>,
      Target \o <<"repo">> }

Nodes == DirNodes \cup FileNodes \cup EitherNodes

KindsOf(n) ==
    IF n \in DirNodes THEN {"dir"} ELSE IF n \in FileNodes THEN {"file"}
    ELSE {"dir", "file"}

\* A tree is well formed when every entry but the roots lies in a directory.
WellFormed(t) ==
    \A n \in DOMAIN t :
        /\ t[n] \in KindsOf(n)
        /\ Len(n) > 1 => (Parent(n) \in DOMAIN t /\ t[Parent(n)] = "dir")

Trees ==
    {t \in { [n \in S |-> IF n \in DirNodes THEN "dir"
                          ELSE IF n \in FileNodes THEN "file" ELSE k[n]] :
                S \in SUBSET Nodes, k \in [EitherNodes -> {"dir", "file"}] } :
        WellFormed(t)}

\* shutil.rmtree(d) on a directory: d and everything below it goes.
RmTree(t, d) == [n \in {m \in DOMAIN t : ~IsPrefix(d, m)} |-> t[n]]

\* dirs_to_clean
DirsToCleanWholeImage(target) ==
    << target \o <<"image">>, target \o <<"image", "repos">>, target \o <<"repo">> >>

DirsToClean(target) ==
    << target \o <<"image", "modules">>, target \o <<"image", "repos">>,
       target \o <<"repo">> >>

\* for d in dirs_to_clean: if os.path.exists(d): shutil.rmtree(d)
\* rmtree of something that is not a directory raises and ends the loop.
RECURSIVE CleanLoop(_, _)
CleanLoop(t, dirs) ==
    IF dirs = <<>> THEN [tree |-> t, result |-> "ok"]
    ELSE IF Head(dirs) \notin DOMAIN t THEN CleanLoop(t, Tail(dirs))
    ELSE IF t[Head(dirs)] # "dir" THEN [tree |-> t, result |-> "NotADirectoryError"]
    ELSE CleanLoop(RmTree(t, Head(dirs)), Tail(dirs))

\* cleanup(target)
CleanupOf(t, target) == CleanLoop(t, DirsToClean(target))

\* os.makedirs(d): d and its missing ancestors become directories.
MakeDirs(t, d) ==
    [n \in DOMAIN t \cup {SubSeq(d, 1, i) : i \in 1 .. Len(d)} |->
        IF n \in DOMAIN t THEN t[n] ELSE "dir"]

\* glob.glob(os.path.join(repo_files_dir, "*.repo")): the names of the entries
\* of the directory that end in .repo.
RepoSuffixed == {"x.repo"}

GlobRepoFiles(t, dir) ==
    {n[Len(n)] : n \in {m \in DOMAIN t : Len(m) = Len(dir) + 1 /\ Parent(m) = dir
                                          /\ m[Len(m)] \in RepoSuffixed}}

\* shutil.copy2(f, target_dir) for every globbed file.
CopyInto(t, names, dir) ==
    [n \in DOMAIN t \cup {dir \o <<x>> : x \in names} |->
        IF n \in DOMAIN t THEN t[n] ELSE "file"]

\* prepare_external_repositories(repo_files_dir, image_dir)
PrepareOf(t, repo_files_dir, image_dir) ==
    IF repo_files_dir \notin DOMAIN t
    THEN [tree |-> t, result |-> "DogenError"]
    ELSE IF (image_dir \o <<"repos">>) \in DOMAIN t
            \/ \E i \in 1 .. Len(image_dir) :
                  SubSeq(image_dir, 1, i) \in DOMAIN t /\ t[SubSeq(image_dir, 1, i)] # "dir"
    THEN [tree |-> t, result |-> "OSError"]
    ELSE [tree |-> CopyInto(MakeDirs(t, image_dir \o <<"repos">>),
                            GlobRepoFiles(t, repo_files_dir),
                            image_dir \o <<"repos">>),
          result |-> "ok"]

NoTreeCall == [op |-> "none", result |-> "none", before |-> <<>>]

\* Nothing has been called and the tree is empty (the subsystem is not in use).
TreeIdle == tree = <<>> /\ clLast = NoTreeCall

\* Any well-formed tree, before the first call.
TreeStart == tree \in Trees /\ clLast = NoTreeCall

\* cleanup(target)
Cleanup ==
    LET r == CleanupOf(tree, Target)
    IN  /\ tree' = r.tree
        /\ clLast' = [op |-> "cleanup", result |-> r.result, before |-> tree]
        /\ UNCHANGED <<artVars, tplVars, descVars>>

\* prepare_external_repositories(repo_files_dir, target/image)
PrepareExternalRepositories ==
    LET r == PrepareOf(tree, RepoFilesDir, Target \o <<"image">>)
    IN  /\ tree' = r.tree
        /\ clLast' = [op |-> "prepare", result |-> r.result, before |-> tree]
        /\ UNCHANGED <<artVars, tplVars, descVars>>

\* A generation run stages a module or scratch file, creating the directories
\* it needs.
StageFile ==
    /\ \E n \in { Target \o <<"image", "modules", "m1", "module.yaml">>,
                  Target \o <<"repo", "x">>, Target \o <<"Dockerfile">>,
                  Target \o <<"image", "a.jar">> } :
          /\ n \notin DOMAIN tree
          /\ \A i \in 1 .. (Len(n) - 1) :
                SubSeq(n, 1, i) \in DOMAIN tree => tree[SubSeq(n, 1, i)] = "dir"
          /\ tree' = CopyInto(MakeDirs(tree, Parent(n)), {n[Len(n)]}, Parent(n))
    /\ clLast' = NoTreeCall
    /\ UNCHANGED <<artVars, tplVars, descVars>>

TreeNext ==
    \/ Cleanup
    \/ PrepareExternalRepositories
    \/ StageFile

----------------------------------------------------------------------------
(* Generator._handle_custom_template, as its unit tests and the design      *)
(* document describe it.                                                    *)

\* args.template is None
NoTemplate == <<>>

TemplateUrls ==
    { <<"http://", "host/custom-template">>, <<"https://", "host/custom-template">> }

LocalTemplates == { <<"template.jinja">> }

\* What the fetch operation may return: the name of a temporary file.
TmpPaths == { <<"some-tmp-file">>, <<"tmpfile">> }

TemplateArgs == {NoTemplate} \cup TemplateUrls \cup LocalTemplates

\* Tools.is_url: a location that starts with http:// or https://
IsUrl(location) == Len(location) > 1 /\ location[1] \in {"http://", "https://"}

\* What one call of the fetch operation does: it raises, or it returns a path,
\* having written the file there or (a stubbed fetch) not.
FetchBehaviours ==
    [raises : BOOLEAN, path : TmpPaths, written : BOOLEAN]

\* Generator._handle_custom_template
HandleCustomTemplateChecksFirst(tpl, files, fetch) ==
    IF tpl = NoTemplate
    THEN [template |-> tpl, tfs |-> files, fetched |-> <<>>, returned |-> <<>>,
          result |-> "ok", why |-> ""]
    ELSE IF IsUrl(tpl) /\ fetch.raises
    THEN [template |-> tpl, tfs |-> files, fetched |-> <<tpl>>, returned |-> <<>>,
          result |-> "Error", why |-> "fetch"]
    ELSE LET t2 == IF IsUrl(tpl) THEN fetch.path ELSE tpl
             f2 == IF IsUrl(tpl) /\ fetch.written THEN files \cup {fetch.path} ELSE files
         IN  [template |-> IF t2 \in f2 THEN t2 ELSE tpl,
              tfs |-> f2,
              fetched |-> IF IsUrl(tpl) THEN <<tpl>> ELSE <<>>,
              returned |-> IF IsUrl(tpl) THEN fetch.path ELSE <<>>,
              result |-> IF t2 \in f2 THEN "ok" ELSE "Error",
              why |-> IF t2 \in f2 THEN "" ELSE "missing"]

HandleCustomTemplateOf(tpl, files, fetch) ==
    IF tpl = NoTemplate
    THEN [template |-> tpl, tfs |-> files, fetched |-> <<>>, returned |-> <<>>,
          result |-> "ok", why |-> ""]
    ELSE IF IsUrl(tpl) /\ fetch.raises
    THEN [template |-> tpl, tfs |-> files, fetched |-> <<tpl>>, returned |-> <<>>,
          result |-> "Error", why |-> "fetch"]
    ELSE LET t2 == IF IsUrl(tpl) THEN fetch.path ELSE tpl
             f2 == IF IsUrl(tpl) /\ fetch.written THEN files \cup {fetch.path} ELSE files
         IN  [template |-> t2,
              tfs |-> f2,
              fetched |-> IF IsUrl(tpl) THEN <<tpl>> ELSE <<>>,
              returned |-> IF IsUrl(tpl) THEN fetch.path ELSE <<>>,
              result |-> IF t2 \in f2 THEN "ok" ELSE "Error",
              why |-> IF t2 \in f2 THEN "" ELSE "missing"]

NoTplCall ==
    [op |-> "none", given |-> <<>>, fetched |-> <<>>, returned |-> <<>>,
     result |-> "none", why |-> ""]

\* The subsystem is not in use.
TplIdle == template = NoTemplate /\ tfs = {} /\ tplLast = NoTplCall

\* A Generator has been constructed with some args.template; any of the
\* template files may exist.
TplStart ==
    /\ template \in TemplateArgs
    /\ tfs \in SUBSET (LocalTemplates \cup TmpPaths)
    /\ tplLast = NoTplCall

\* Generator(log, args)
NewGenerator ==
    /\ \E t \in TemplateArgs : template' = t
    /\ tplLast' = NoTplCall
    /\ UNCHANGED <<tfs, artVars, treeVars, descVars>>

\* self._handle_custom_template()
HandleCustomTemplate ==
    \E fetch \in FetchBehaviours :
        LET r == HandleCustomTemplateOf(template, tfs, fetch)
        IN  /\ template' = r.template
            /\ tfs' = r.tfs
            /\ tplLast' = [op |-> "handle", given |-> template, fetched |-> r.fetched,
                           returned |-> r.returned, result |-> r.result, why |-> r.why]
            /\ UNCHANGED <<artVars, treeVars, descVars>>

\* A template file is deleted (the temporary template is removed after use).
RemoveTemplateFile ==
    /\ \E p \in tfs : tfs' = tfs \ {p}
    /\ tplLast' = NoTplCall
    /\ UNCHANGED <<template, artVars, treeVars, descVars>>

TplNext ==
    \/ NewGenerator
    \/ HandleCustomTemplate
    \/ RemoveTemplateFile

----------------------------------------------------------------------------
(* load_descriptor, and the generation run that starts with it. *)

\* The most artifacts one descriptor declares.
MaxArtifacts == 2

\* The schema types the package ships a schema for, and the types a caller
\* may ask for.
SchemaTypes == {"image", "module"}

RequestedTypes == SchemaTypes \cup {"bogus"}

DescPaths == { <<"image.yaml">>, <<"module.yaml">> }

\* What a descriptor file holds: text that is not YAML, nothing (an empty file
\* or 'null', which yaml.safe_load turns into None), or a mapping that
\* validates against the image schema, against the module schema, or against
\* neither (a required field is omitted).
DescContents == {"unparsable", "empty", "image", "module", "neither"}

Nothing == <<>>

\* load_descriptor(descriptor_path, schema_type). Only core.validate() is inside
\* the try: an error of yaml.safe_load, or of the Core constructor (which
\* rejects source data of None), leaves the function as it is.
LoadDescriptorOf(sch, files, path, type) ==
    IF type \notin sch
    THEN [result |-> "DogenError", msg |-> "Cannot locate schema", returned |-> Nothing]
    ELSE IF path \notin DOMAIN files
    THEN [result |-> "DogenError", msg |-> "Cannot find provided descriptor file",
          returned |-> Nothing]
    ELSE IF files[path] = "unparsable"
    THEN [result |-> "YAMLError", msg |-> "", returned |-> Nothing]
    ELSE IF files[path] = "empty"
    THEN [result |-> "CoreError", msg |-> "No source file/data was loaded",
          returned |-> Nothing]
    ELSE IF files[path] # type
    THEN [result |-> "DogenError", msg |-> "Cannot validate schema", returned |-> Nothing]
    ELSE [result |-> "returned", msg |-> "", returned |-> path]

NoLoad ==
    [op |-> "none", path |-> <<>>, type |-> "", result |-> "none", msg |-> "",
     returned |-> Nothing]

LoadRecord(path, type, r) ==
    [op |-> "load", path |-> path, type |-> type, result |-> r.result, msg |-> r.msg,
     returned |-> r.returned]

\* A run that has not loaded anything yet.
NewRun == [stage |-> "Init", failedAt |-> "", fetches |-> 0, rendered |-> FALSE]

\* The subsystem is not in use.
DescIdle ==
    /\ schemas = SchemaTypes
    /\ descFiles = <<>>
    /\ ldLast = NoLoad
    /\ run = NewRun

\* Any of the schemas may be missing from the installation and the descriptor
\* files hold anything.
DescStart ==
    /\ schemas \in SUBSET SchemaTypes
    /\ descFiles \in UNION {[S -> DescContents] : S \in SUBSET DescPaths}
    /\ ldLast = NoLoad
    /\ run = NewRun

\* load_descriptor(path, type), called on its own
LoadDescriptor ==
    /\ \E path \in DescPaths, type \in RequestedTypes :
          ldLast' = LoadRecord(path, type, LoadDescriptorOf(schemas, descFiles, path, type))
    /\ UNCHANGED <<schemas, descFiles, run, artVars, treeVars, tplVars>>

\* The user rewrites or deletes a descriptor file.
EditDescriptor ==
    /\ \E path \in DOMAIN descFiles, c \in DescContents :
          /\ c # descFiles[path]
          /\ descFiles' = [descFiles EXCEPT ![path] = c]
    /\ ldLast' = NoLoad
    /\ UNCHANGED <<schemas, run, artVars, treeVars, tplVars>>

\* The run: Init -> Loaded -> Composed -> Substituted -> ArtifactsFetched ->
\* Rendered -> Done, every step fatal on error.
RunStart ==
    /\ run.stage \in {"Done", "Failed"}
    /\ run' = NewRun
    /\ ldLast' = NoLoad
    /\ UNCHANGED <<schemas, descFiles, artVars, treeVars, tplVars>>

\* Init -> Loaded: the image descriptor is loaded.
RunLoad ==
    /\ run.stage = "Init"
    /\ LET r == LoadDescriptorOf(schemas, descFiles, <<"image.yaml">>, "image")
       IN  /\ ldLast' = LoadRecord(<<"image.yaml">>, "image", r)
           /\ run' = IF r.result = "returned"
                     THEN [run EXCEPT !.stage = "Loaded"]
                     ELSE [run EXCEPT !.stage = "Failed", !.failedAt = "load"]
    /\ UNCHANGED <<schemas, descFiles, artVars, treeVars, tplVars>>

\* Loaded -> Composed: a referenced module descriptor, if any, is loaded and
\* merged.
RunCompose ==
    /\ run.stage = "Loaded"
    /\ \/ /\ run' = [run EXCEPT !.stage = "Composed"]
          /\ UNCHANGED ldLast
       \/ LET r == LoadDescriptorOf(schemas, descFiles, <<"module.yaml">>, "module")
          IN  /\ ldLast' = LoadRecord(<<"module.yaml">>, "module", r)
              /\ run' = IF r.result = "returned"
                        THEN [run EXCEPT !.stage = "Composed"]
                        ELSE [run EXCEPT !.stage = "Failed", !.failedAt = "load"]
    /\ UNCHANGED <<schemas, descFiles, artVars, treeVars, tplVars>>

\* Composed -> Substituted, or an unresolved placeholder ends the run.
RunSubstitute ==
    /\ run.stage = "Composed"
    /\ \/ run' = [run EXCEPT !.stage = "Substituted"]
       \/ run' = [run EXCEPT !.stage = "Failed", !.failedAt = "substitute"]
    /\ UNCHANGED <<schemas, descFiles, ldLast, artVars, treeVars, tplVars>>

\* Substituted -> ArtifactsFetched: each declared artifact is fetched in turn;
\* n of them reach the network before the step ends or fails.
RunFetchArtifacts ==
    /\ run.stage = "Substituted"
    /\ \E n \in 0 .. MaxArtifacts :
          \/ run' = [run EXCEPT !.stage = "ArtifactsFetched", !.fetches = n]
          \/ /\ n > 0
             /\ run' = [run EXCEPT !.stage = "Failed", !.failedAt = "fetch", !.fetches = n]
    /\ UNCHANGED <<schemas, descFiles, ldLast, artVars, treeVars, tplVars>>

\* ArtifactsFetched -> Rendered: the build file is written.
RunRender ==
    /\ run.stage = "ArtifactsFetched"
    /\ run' = [run EXCEPT !.stage = "Rendered", !.rendered = TRUE]
    /\ UNCHANGED <<schemas, descFiles, ldLast, artVars, treeVars, tplVars>>

\* Rendered -> Done
RunFinish ==
    /\ run.stage = "Rendered"
    /\ run' = [run EXCEPT !.stage = "Done"]
    /\ UNCHANGED <<schemas, descFiles, ldLast, artVars, treeVars, tplVars>>

DescNext ==
    \/ LoadDescriptor
    \/ EditDescriptor
    \/ RunStart
    \/ RunLoad
    \/ RunCompose
    \/ RunSubstitute
    \/ RunFetchArtifacts
    \/ RunRender
    \/ RunFinish

----------------------------------------------------------------------------
(* Artifact: the inputs of the constructor. *)

\* The digests an artifact descriptor may declare for an algorithm: the digest
\* of content 1 and the digest of content 2, and for sha256 also the digest of
\* content 1 written in upper case.
DeclaredValues(alg) ==
    {HexDigest(alg, 1), HexDigest(alg, 2)}
        \cup (IF alg = "sha256" THEN {Upper(HexDigest(alg, 1))} ELSE {})

AllDeclaredValues == UNION {DeclaredValues(alg) : alg \in Algorithms}

SumEntries(S) ==
    {f \in [S -> AllDeclaredValues] : \A k \in S : f[k] \in DeclaredValues(k)}

\* artifact_dict: a mapping with the keys 'artifact' and 'name' and any of
\* the checksum keys.
ArtifactDicts ==
    UNION { { [k \in {"artifact", "name"} \cup S |->
                 IF k = "artifact" THEN src
                 ELSE IF k = "name" THEN <<n>>
                 ELSE f[k]] : f \in SumEntries(S) }
            : S \in SUBSET Algorithms, src \in Sources, n \in Names }

----------------------------------------------------------------------------
(* Artifact: the methods, as functions of the state they read. *)

\* Artifact.__init__: filename is fixed here from the class-level target_dir;
\* only the supported algorithms are copied into sums; url is not set.
ArtifactInit(d, td) ==
    [ artifact |-> d["artifact"],
      name     |-> d["name"][1],
      sums     |-> [alg \in {a \in Algorithms : a \in DOMAIN d} |-> d[alg]],
      filename |-> Join(td, d["name"][1]),
      hasUrl   |-> FALSE,
      url      |-> <<>> ]

\* The algorithms of sums in the order the loops visit them.
OrderedAlgs(sums) ==
    SelectSeq(SUPPORTED_HASH_ALGORITHMS, LAMBDA x : x \in DOMAIN sums)

\* for alg in SUPPORTED_HASH_ALGORITHMS: if alg in self.sums: ...; break
FirstSupportedAlgNoBreak(sums) == OrderedAlgs(sums)[Len(OrderedAlgs(sums))]

FirstSupportedAlg(sums) == OrderedAlgs(sums)[1]

\* cache.replace('#filename#', name).replace('#algorithm#', alg)
\*      .replace('#hash#', sums[alg])
CacheUrl(c, name, alg, digest) ==
    Replace(Replace(Replace(c, "#filename#", <<name>>), "#algorithm#", <<alg>>),
            "#hash#", digest)

\* Artifact._generate_url: the value of self.url afterwards, whether the
\* attribute exists, and whether this call assigned it.
GenerateUrl(a, c) ==
    IF c = <<>>
    THEN [hasUrl |-> TRUE, url |-> a.artifact, assigned |-> TRUE]
    ELSE IF DOMAIN a.sums = {}
    THEN [hasUrl |-> a.hasUrl, url |-> a.url, assigned |-> FALSE]
    ELSE [hasUrl |-> TRUE,
          url |-> CacheUrl(c, a.name, FirstSupportedAlg(a.sums),
                           a.sums[FirstSupportedAlg(a.sums)]),
          assigned |-> TRUE]

\* chksum.lower() != expected_chksum.lower()
DigestsEqualCaseSensitive(chksum, expected) == chksum = expected

DigestsEqual(chksum, expected) == Lower(chksum) = Lower(expected)

\* Artifact._check_sum: hashes the file at self.filename.
CheckSum(a, alg, expected, f) ==
    IF ~Exists(f, a.filename) THEN "IOError"
    ELSE IF ~DigestsEqual(HexDigest(alg, f[a.filename]), expected) THEN "DogenError"
    ELSE "ok"

\* for algorithm, chksum in self.sums.items(): self._check_sum(...)
\* The first failing check raises; n counts the _check_sum calls made.
RECURSIVE VerifyLoop(_, _, _, _)
VerifyLoop(a, f, algs, n) ==
    IF algs = <<>> THEN [result |-> "ok", checks |-> n]
    ELSE LET r == CheckSum(a, Head(algs), a.sums[Head(algs)], f)
         IN  IF r # "ok" THEN [result |-> r, checks |-> n + 1]
             ELSE VerifyLoop(a, f, Tail(algs), n + 1)

\* Artifact.verify
Verify(a, ci, f) ==
    IF ~ci THEN [result |-> "ok", checks |-> 0]
    ELSE VerifyLoop(a, f, OrderedAlgs(a.sums), 0)

\* res.status_code != 200
StatusOk(status) == status = 200

\* The download step of Artifact.fetch (from requests.get on): one request to
\* url; a status other than 200 raises before the destination is opened.
FetchDownloadWriteFirst(a, url, dest, f, ci, status, body) ==
    [ result   |-> IF StatusOk(status) THEN "ok" ELSE "DogenError",
      errUrl   |-> IF StatusOk(status) THEN <<>> ELSE url,
      requests |-> <<url>>,
      checks   |-> 0,
      fs       |-> WriteFile(f, dest, body) ]

FetchDownloadThenVerify(a, url, dest, f, ci, status, body) ==
    IF ~StatusOk(status)
    THEN [result |-> "DogenError", errUrl |-> url, requests |-> <<url>>,
          checks |-> 0, fs |-> f]
    ELSE LET v == Verify(a, ci, WriteFile(f, dest, body))
         IN  [result |-> v.result, errUrl |-> <<>>, requests |-> <<url>>,
              checks |-> v.checks, fs |-> WriteFile(f, dest, body)]

FetchDownload(a, url, dest, f, ci, status, body) ==
    IF ~StatusOk(status)
    THEN [result |-> "DogenError", errUrl |-> url, requests |-> <<url>>,
          checks |-> 0, fs |-> f]
    ELSE [result |-> "ok", errUrl |-> <<>>, requests |-> <<url>>,
          checks |-> 0, fs |-> WriteFile(f, dest, body)]

\* Artifact.fetch up to the download step: an existing destination returns at
\* once; otherwise self.url is read, which raises AttributeError when
\* _generate_url never assigned it.
FetchAlwaysDownloads(a, g, dest, f, ci, status, body) ==
    IF ~g.hasUrl
    THEN [result |-> "AttributeError", errUrl |-> <<>>, requests |-> <<>>,
          checks |-> 0, fs |-> f]
    ELSE FetchDownload(a, g.url, dest, f, ci, status, body)

FetchOutcome(a, g, dest, f, ci, status, body) ==
    IF Exists(f, dest)
    THEN [result |-> "ok", errUrl |-> <<>>, requests |-> <<>>, checks |-> 0, fs |-> f]
    ELSE IF ~g.hasUrl
    THEN [result |-> "AttributeError", errUrl |-> <<>>, requests |-> <<>>,
          checks |-> 0, fs |-> f]
    ELSE FetchDownload(a, g.url, dest, f, ci, status, body)

----------------------------------------------------------------------------
(* Artifact: the state machine. *)

NoCall ==
    [ op |-> "none", result |-> "none", errUrl |-> <<>>, requests |-> <<>>,
      checks |-> 0, fsBefore |-> <<>>, dest |-> <<>>, status |-> 200, body |-> 1,
      assigned |-> FALSE ]

FileSystems == UNION {[S -> Contents] : S \in SUBSET Paths}

\* The class attributes hold their defaults, one artifact has been constructed,
\* and the artifact directories hold any files.
ArtStart ==
    /\ target_dir = ""
    /\ check_integrity = TRUE
    /\ cache \in CachePatterns
    /\ fs \in FileSystems
    /\ \E d \in ArtifactDicts : art = ArtifactInit(d, target_dir)
    /\ last = NoCall

\* The artifact subsystem is not in use.
ArtIdle ==
    /\ target_dir = ""
    /\ check_integrity = TRUE
    /\ cache = <<>>
    /\ fs = <<>>
    /\ art = ArtifactInit([k \in {"artifact", "name"} |->
                             IF k = "artifact" THEN <<"http://host/a.jar">> ELSE <<"a.jar">>],
                         "")
    /\ last = NoCall

\* Artifact.target_dir = d
SetTargetDir ==
    /\ \E d \in Dirs : d # target_dir /\ target_dir' = d
    /\ last' = NoCall
    /\ UNCHANGED <<check_integrity, cache, fs, art, treeVars, tplVars, descVars>>

\* Artifact.check_integrity = b
SetCheckIntegrity ==
    /\ check_integrity' = ~check_integrity
    /\ last' = NoCall
    /\ UNCHANGED <<target_dir, cache, fs, art, treeVars, tplVars, descVars>>

\* The environment sets or clears DOGEN_ARTIFACT_CACHE.
SetCache ==
    /\ \E c \in CachePatterns : c # cache /\ cache' = c
    /\ last' = NoCall
    /\ UNCHANGED <<target_dir, check_integrity, fs, art, treeVars, tplVars, descVars>>

\* Something outside the tool changes one byte of an existing file.
Corrupt ==
    /\ \E p \in DOMAIN fs : \E c \in Contents :
          c # fs[p] /\ fs' = [fs EXCEPT ![p] = c]
    /\ last' = NoCall
    /\ UNCHANGED <<target_dir, check_integrity, cache, art, treeVars, tplVars, descVars>>

\* Artifact(artifact_dict)
Construct ==
    /\ \E d \in ArtifactDicts : art' = ArtifactInit(d, target_dir)
    /\ last' = [NoCall EXCEPT !.op = "construct"]
    /\ UNCHANGED <<target_dir, check_integrity, cache, fs, treeVars, tplVars, descVars>>

\* self.fetch(), the server answering with (status, body)
Fetch ==
    \E status \in StatusCodes, body \in Contents :
        LET g    == GenerateUrl(art, cache)
            dest == Join(target_dir, art.name)
            o    == FetchOutcome(art, g, dest, fs, check_integrity, status, body)
        IN  /\ art' = [art EXCEPT !.hasUrl = g.hasUrl, !.url = g.url]
            /\ fs' = o.fs
            /\ last' = [ op |-> "fetch", result |-> o.result, errUrl |-> o.errUrl,
                         requests |-> o.requests, checks |-> o.checks,
                         fsBefore |-> fs, dest |-> dest,
                         status |-> IF o.requests = <<>> THEN 200 ELSE status,
                         body |-> IF o.requests = <<>> THEN 1 ELSE body,
                         assigned |-> g.assigned ]
            /\ UNCHANGED <<target_dir, check_integrity, cache, treeVars, tplVars, descVars>>

\* self.verify()
VerifyCall ==
    LET v == Verify(art, check_integrity, fs)
    IN  /\ last' = [NoCall EXCEPT !.op = "verify", !.result = v.result,
                                  !.checks = v.checks]
        /\ UNCHANGED <<target_dir, check_integrity, cache, fs, art, treeVars, tplVars, descVars>>

ArtNext ==
    \/ SetTargetDir
    \/ SetCheckIntegrity
    \/ SetCache
    \/ Corrupt
    \/ Construct
    \/ Fetch
    \/ VerifyCall

ArtInit == ArtStart /\ TreeIdle /\ TplIdle /\ DescIdle

Spec == ArtInit /\ [][ArtNext]_vars

----------------------------------------------------------------------------
(* Artifact: the properties. *)

\* The most recent operation was a fetch that found its destination present.
FetchFoundExisting == last.op = "fetch" /\ Exists(last.fsBefore, last.dest)

\* The most recent operation was a fetch that sent its request.
FetchRequested ==
    /\ last.op = "fetch"
    /\ ~Exists(last.fsBefore, last.dest)
    /\ last.requests # <<>>

\* Some checksum the artifact declares differs from the digest of content c.
SomeDeclaredMismatch(c) ==
    \E alg \in DOMAIN art.sums : Lower(HexDigest(alg, c)) # Lower(art.sums[alg])

\* C1: a fetch whose destination file already exists returns successfully with
\* no network request and no checksum verification, and leaves every file,
\* the destination included, as it was, whatever the destination holds.
C1_FetchExistingIsNoOp ==
    FetchFoundExisting =>
        /\ last.result = "ok"
        /\ last.requests = <<>>
        /\ last.checks = 0
        /\ fs = last.fsBefore

\* C1 witness: a fetch found an existing destination whose content mismatches a
\* declared checksum, with integrity checking switched on.
C1_Witness ==
    /\ FetchFoundExisting
    /\ check_integrity
    /\ SomeDeclaredMismatch(fs[last.dest])
    /\ art.filename = last.dest

\* The most recent operation was a fetch that downloaded with status 200.
FreshDownload == FetchRequested /\ last.status = 200

\* C2 as claimed: a fetch that downloads afresh and returns success has run one
\* checksum verification per declared checksum, and every declared checksum
\* matches what was downloaded.
C2_FetchVerifiesDownload ==
    (FreshDownload /\ last.result = "ok") =>
        /\ last.checks = Cardinality(DOMAIN art.sums)
        /\ ~SomeDeclaredMismatch(last.body)

\* C2 amended: a fetch that downloads afresh with status 200 writes the body to
\* the destination and returns success without any checksum verification,
\* also when the body mismatches a declared checksum.
C2_FetchDownloadsWithoutVerifying ==
    FreshDownload =>
        /\ last.result = "ok"
        /\ last.checks = 0
        /\ fs = WriteFile(last.fsBefore, last.dest, last.body)

\* C2 witness: a fresh download of a body that mismatches a declared checksum,
\* with integrity checking on and verify reading the very file fetch wrote.
C2_Witness ==
    /\ FreshDownload
    /\ check_integrity
    /\ art.filename = last.dest
    /\ SomeDeclaredMismatch(last.body)
    /\ Cardinality(DOMAIN art.sums) >= 2

\* Every declared checksum equals, ignoring case, the digest of the file that
\* verify reads.
AllDeclaredMatch ==
    \A alg \in DOMAIN art.sums :
        /\ Exists(fs, art.filename)
        /\ Lower(HexDigest(alg, fs[art.filename])) = Lower(art.sums[alg])

\* C3 as claimed: in every setting of the class, verify returns success only
\* if every declared checksum matches the file.
C3_VerifyOkOnlyIfAllMatch ==
    (last.op = "verify" /\ last.result = "ok") => AllDeclaredMatch

\* C3 amended: with check_integrity true, verify returns success exactly when
\* every declared checksum matches the file ignoring case (so with none
\* declared it succeeds), and one mismatch among matches fails it with the
\* tool's error; with check_integrity false it returns success without
\* hashing anything.
C3_VerifyChecksAllWhenEnabled ==
    last.op = "verify" =>
        IF check_integrity
        THEN /\ last.result = "ok" <=> AllDeclaredMatch
             /\ (Exists(fs, art.filename) /\ ~AllDeclaredMatch)
                    => last.result = "DogenError"
        ELSE last.result = "ok" /\ last.checks = 0

\* C3 witness: verify ran with integrity checking on against a file that one
\* declared checksum (written in upper case) matches and another does not.
C3_Witness ==
    /\ last.op = "verify"
    /\ check_integrity
    /\ Exists(fs, art.filename)
    /\ \E x \in DOMAIN art.sums :
          /\ art.sums[x] = Upper(HexDigest(x, fs[art.filename]))
          /\ art.sums[x] # HexDigest(x, fs[art.filename])
    /\ SomeDeclaredMismatch(fs[art.filename])
    /\ last.result = "DogenError"

\* The algorithm the cache URL is built from: the first declared one in the
\* order sha256, sha1, md5.
PriorityAlg(sums) ==
    IF "sha256" \in DOMAIN sums THEN "sha256"
    ELSE IF "sha1" \in DOMAIN sums THEN "sha1"
    ELSE "md5"

\* The pattern with each placeholder replaced where it stands.
RECURSIVE Substituted(_, _, _, _)
Substituted(pattern, name, alg, digest) ==
    IF pattern = <<>> THEN <<>>
    ELSE (CASE Head(pattern) = "#filename#" -> <<name>>
            [] Head(pattern) = "#algorithm#" -> <<alg>>
            [] Head(pattern) = "#hash#" -> digest
            [] OTHER -> <<Head(pattern)>>)
         \o Substituted(Tail(pattern), name, alg, digest)

\* C4: after fetch has generated the URL, it is the declared source when no
\* cache pattern is set, and, when one is set and a checksum is declared, the
\* pattern with the name, the first declared algorithm in priority order and
\* that algorithm's digest substituted; a request that is sent goes there.
C4_UrlIsSourceOrCachePattern ==
    last.op = "fetch" =>
        /\ cache = <<>> => (art.hasUrl /\ art.url = art.artifact)
        /\ (cache # <<>> /\ DOMAIN art.sums # {}) =>
              /\ art.hasUrl
              /\ art.url = Substituted(cache, art.name, PriorityAlg(art.sums),
                                       art.sums[PriorityAlg(art.sums)])
        /\ (last.requests # <<>>) => last.requests = <<art.url>>

\* C4 witness: a request was sent under a pattern with all three placeholders
\* for an artifact declaring sha1 and md5 with different digests.
C4_Witness ==
    /\ FetchRequested
    /\ Len(cache) = 6
    /\ DOMAIN art.sums = {"sha1", "md5"}
    /\ Tail(art.sums["sha1"]) # Tail(art.sums["md5"])

\* C5: a fetch whose request is answered with a status other than 200 fails
\* with the tool's error carrying the requested URL and changes no file, so
\* the destination is still absent for a later fetch.
C5_FailedDownloadLeavesNoFile ==
    (FetchRequested /\ last.status # 200) =>
        /\ last.result = "DogenError"
        /\ last.errUrl = last.requests[1]
        /\ fs = last.fsBefore
        /\ ~Exists(fs, last.dest)

\* C5 witness: a request through the cache was answered 404 while another
\* file was present.
C5_Witness ==
    /\ FetchRequested
    /\ last.status # 200
    /\ cache # <<>>
    /\ DOMAIN fs # {}

\* C9 as claimed: whenever fetch reaches the download step, this call's
\* _generate_url has assigned the URL and the request goes to it.
C9_UrlDefinedAtDownload ==
    (last.op = "fetch" /\ ~Exists(last.fsBefore, last.dest)) =>
        /\ last.assigned
        /\ art.hasUrl
        /\ last.requests = <<art.url>>

\* C10 as claimed: the path verify hashes (filename, fixed at construction) is
\* the path fetch wrote to or found existing (destination).
C10_VerifyPathIsFetchPath ==
    (last.op = "fetch" /\ last.result = "ok") => art.filename = last.dest

----------------------------------------------------------------------------
(* cleanup: the specification and the properties. *)

TreeInit == TreeStart /\ ArtIdle /\ TplIdle /\ DescIdle

SpecCleanup == TreeInit /\ [][TreeNext]_vars

\* The three subtrees cleanup is to remove.
CleanedRoots ==
    { Target \o <<"image", "modules">>, Target \o <<"image", "repos">>,
      Target \o <<"repo">> }

UnderCleanedRoot(n) == \E r \in CleanedRoots : IsPrefix(r, n)

\* C7: when each of the three paths is absent or a directory, cleanup succeeds;
\* when it succeeds, what is left is exactly what was there outside the three
\* subtrees, unchanged; and a second cleanup changes nothing.
C7_CleanupRemovesOnlyThreeSubtrees ==
    clLast.op = "cleanup" =>
        /\ (\A r \in CleanedRoots :
               r \in DOMAIN clLast.before => clLast.before[r] = "dir")
              => clLast.result = "ok"
        /\ clLast.result = "ok" =>
              /\ DOMAIN tree = {n \in DOMAIN clLast.before : ~UnderCleanedRoot(n)}
              /\ \A n \in DOMAIN tree : tree[n] = clLast.before[n]
              /\ CleanupOf(tree, Target) = [tree |-> tree, result |-> "ok"]

\* C7 witness: cleanup removed two populated subtrees while the third was
\* absent, and the build file and an artifact file outside them were there.
C7_Witness ==
    /\ clLast.op = "cleanup"
    /\ clLast.result = "ok"
    /\ (Target \o <<"image", "modules", "m1", "module.yaml">>) \in DOMAIN clLast.before
    /\ (Target \o <<"repo", "x">>) \in DOMAIN clLast.before
    /\ (Target \o <<"image", "repos">>) \notin DOMAIN clLast.before
    /\ (Target \o <<"Dockerfile">>) \in DOMAIN tree
    /\ (Target \o <<"image", "a.jar">>) \in DOMAIN tree

----------------------------------------------------------------------------
(* _handle_custom_template: the specification and the property. *)

TplInit == TplStart /\ ArtIdle /\ TreeIdle /\ DescIdle

SpecTemplate == TplInit /\ [][TplNext]_vars

\* C6: with no template configured nothing is fetched and the template stays
\* None; a URL template is fetched with exactly that URL and replaced by the
\* path the fetch returns; and when the resulting path does not exist the call
\* fails with an Error, the template already being the fetched path.
C6_CustomTemplateHandling ==
    tplLast.op = "handle" =>
        /\ tplLast.given = NoTemplate =>
              (tplLast.fetched = <<>> /\ template = NoTemplate /\ tplLast.result = "ok")
        /\ tplLast.given \in TemplateUrls =>
              /\ tplLast.fetched = <<tplLast.given>>
              /\ tplLast.why # "fetch" => template = tplLast.returned
        /\ tplLast.given \in LocalTemplates =>
              (tplLast.fetched = <<>> /\ template = tplLast.given)
        /\ (tplLast.why # "fetch" /\ template # NoTemplate /\ template \notin tfs) =>
              (tplLast.result = "Error" /\ tplLast.why = "missing")
        /\ (tplLast.result = "ok" /\ template # NoTemplate) => template \in tfs

\* C6 witness: a URL template was fetched, the returned path does not exist,
\* the call failed, and the template is the returned path.
C6_Witness ==
    /\ tplLast.op = "handle"
    /\ tplLast.given \in TemplateUrls
    /\ tplLast.fetched = <<tplLast.given>>
    /\ tplLast.result = "Error"
    /\ tplLast.why = "missing"
    /\ template = <<"some-tmp-file">>
    /\ template \notin tfs

----------------------------------------------------------------------------
(* load_descriptor: the specification and the property. *)

DescInit == DescStart /\ ArtIdle /\ TreeIdle /\ TplIdle

SpecDescriptor == DescInit /\ [][DescNext]_vars

\* C8 as claimed: load_descriptor returns a descriptor only when the schema
\* was located, the file exists and it validates; a missing schema, a missing
\* file and a descriptor that violates the schema (one that omits a required
\* field, an empty one included) each fail with DogenError and return nothing;
\* and a run that failed loading a descriptor has fetched and rendered nothing.
C8_LoadDescriptorFailsFast ==
    /\ ldLast.op = "load" =>
          /\ ldLast.result = "returned" =>
                /\ ldLast.type \in schemas
                /\ ldLast.path \in DOMAIN descFiles
                /\ descFiles[ldLast.path] = ldLast.type
                /\ ldLast.returned = ldLast.path
          /\ ldLast.type \notin schemas => ldLast.result = "DogenError"
          /\ ldLast.path \notin DOMAIN descFiles => ldLast.result = "DogenError"
          /\ (/\ ldLast.type \in schemas
              /\ ldLast.path \in DOMAIN descFiles
              /\ descFiles[ldLast.path] \in
                    {"empty", "image", "module", "neither"} \ {ldLast.type})
                => ldLast.result = "DogenError"
          /\ ldLast.result # "returned" => ldLast.returned = Nothing
    /\ (run.stage = "Failed" /\ run.failedAt = "load") =>
          (run.fetches = 0 /\ ~run.rendered)

====
